---- MODULE Spec2Model ----
(***************************************************************************)
(* Model of GitFileHistoryCommandHandler                                   *)
(* (src/src/commandHandlers/fileCommit/fileHistory.ts).                    *)
(*                                                                         *)
(* One behaviour handles one request: Init picks the handler and its       *)
(* argument (fileCommit), every await of the handler is one step.  The     *)
(* external collaborators (git service, file system, command manager,      *)
(* application shell) are recorded by the calls they receive; each call    *)
(* either succeeds or rejects.                                             *)
(*                                                                         *)
(* Strings that the code takes apart or builds (paths, hashes, titles) are *)
(* sequences of one-character strings; the character "<->" stands for the  *)
(* double arrow of the title format.                                       *)
(***************************************************************************)
EXTENDS Integers, Sequences, FiniteSets, TLC

\* ---------------------------------------------------------------- bounds
MaxNameLen == 1
NumDigits == 2

\* ------------------------------------------------------------ input data
NameChars == {"x", "y"}
HexDigits == <<"c", "d", "e", "f">>
Digits == {HexDigits[i] : i \in 1..NumDigits}

RECURSIVE SeqsUpTo(_, _)
SeqsUpTo(S, n) ==
    IF n = 0 THEN {<<>>}
    ELSE LET shorter == SeqsUpTo(S, n - 1)
         IN  shorter \cup {Append(s, c) : s \in {t \in shorter : Len(t) = n - 1}, c \in S}

FileNames == SeqsUpTo(NameChars, MaxNameLen) \ {<<>>}
Dirs == {<<>>, <<"/", "d">>}
Paths == {d \o <<"/">> \o n : d \in Dirs, n \in FileNames}

\* Hash of src/types: a full form and a short form that is a prefix of it.
Hashes == {[full |-> <<a, b>>, short |-> <<a>>] : a \in Digits, b \in Digits}
NoHash == [full |-> <<>>, short |-> <<>>]

Uris == {[scheme |-> "file", path |-> p] : p \in Paths}
NoUri == [scheme |-> "none", path |-> <<>>]

Statuses == {"Added", "Modified", "Deleted", "Renamed"}
Handlers == {"viewFile", "compareFileWithWorkspace", "compareFileWithPrevious",
             "viewPreviousFile", "compareFileAcrossCommits"}

\* FileCommitDetails; CompareFileCommitDetails also carries rightCommit.
FileCommits(h) ==
    {[status |-> s, uri |-> u, oldUri |-> o, hash |-> c, rightHash |-> r] :
        s \in Statuses, u \in Uris, o \in Uris \cup {NoUri}, c \in Hashes,
        r \in IF h = "compareFileAcrossCommits" THEN Hashes ELSE {NoHash}}

\* -------------------------------------------------------- pure functions
\* vscode Uri.file(path): a file Uri whose path starts with a slash.
UriFile(p) ==
    [scheme |-> "file", path |-> IF p = <<>> \/ p[1] # "/" THEN <<"/">> \o p ELSE p]

\* Uri.fsPath on a posix host.
fsPath(u) == u.path

RECURSIVE StripTrailingSlashes(_)
StripTrailingSlashes(p) ==
    IF Len(p) > 0 /\ p[Len(p)] = "/"
    THEN StripTrailingSlashes(SubSeq(p, 1, Len(p) - 1))
    ELSE p

RECURSIVE AfterLastSlash(_)
AfterLastSlash(p) ==
    IF p = <<>> THEN <<>>
    ELSE IF p[Len(p)] = "/" THEN <<>>
    ELSE Append(AfterLastSlash(SubSeq(p, 1, Len(p) - 1)), p[Len(p)])

\* path.basename(p)
basename(p) == AfterLastSlash(StripTrailingSlashes(p))

\* Faulty variant: the short hashes are left out of the title.
getComparisonTitleSymmetric(left, right) ==
    LET leftFileName == basename(fsPath(left.file))
        rightFileName == basename(fsPath(right.file))
    IN  IF leftFileName = rightFileName
        THEN leftFileName \o <<" ", "(">> \o <<"<->">> \o <<")">>
        ELSE leftFileName \o <<" ", "(">> \o <<"<->">> \o <<" ">> \o rightFileName \o <<")">>

getComparisonTitle(left, right) ==
    LET leftFileName == basename(fsPath(left.file))
        rightFileName == basename(fsPath(right.file))
    IN  IF leftFileName = rightFileName
        THEN leftFileName \o <<" ", "(">> \o left.hash.short \o <<" ", "<->", " ">>
                 \o right.hash.short \o <<")">>
        ELSE leftFileName \o <<" ", "(">> \o left.hash.short \o <<" ", "<->", " ">>
                 \o rightFileName \o <<" ">> \o right.hash.short \o <<")">>

\* `${fileName} (${hash.short} <-> Working File)`
WorkspaceTitle(fc) ==
    basename(fc.uri.path) \o <<" ", "(">> \o fc.hash.short
        \o <<" ", "<->", " ">> \o <<"Working File">> \o <<")">>

\* Faulty variant: the recorded previous path is ignored.
previousFileIgnoringRename(fc) == fc.uri

\* oldUri ? oldUri : uri
previousFile(fc) == IF fc.oldUri # NoUri THEN fc.oldUri ELSE fc.uri

\* The temporary file gitService.getCommitFile(hash, file) resolves to.
CommitFile(hashFull, file) ==
    [scheme |-> "file", path |-> <<"/", "tmp", "/">> \o hashFull \o file.path]

\* ----------------------------------------------------------------- state
VARIABLES
    handler,            \* the command handler that was invoked
    fileCommit,         \* its argument
    pc,                 \* position in the handler; "resolved" / "rejected" at the end
    failedAt,           \* the external call whose rejection ended the handler
    gitCalls,           \* calls made to the git service, in order
    existsCalls,        \* calls of fileSystem.fileExistsAsync, with their results
    ui,                 \* presentations made (executeCommand / showErrorMessage)
    tmpFile,            \* local tmpFile
    previousCommitHash, \* local previousCommitHash
    previousTmpFile,    \* local previousTmpFile
    leftFilePromise,    \* compareFileAcrossCommits: leftFilePromise
    rightFilePromise,   \* compareFileAcrossCommits: rightFilePromise
    settled,            \* the order in which the two promises settled
    files,              \* compareFileAcrossCommits: [leftFile, rightFile]
    titleLeft,          \* title formatter: left input
    titleRight,         \* title formatter: right input
    titleOut,           \* title formatter: format(left, right)
    titleSwapped        \* title formatter: format(right, left)

handlerVars == <<handler, fileCommit, pc, failedAt, gitCalls, existsCalls, ui, tmpFile,
                 previousCommitHash, previousTmpFile, leftFilePromise, rightFilePromise,
                 settled, files>>
titleVars == <<titleLeft, titleRight, titleOut, titleSwapped>>
vars == <<handler, fileCommit, pc, failedAt, gitCalls, existsCalls, ui, tmpFile,
          previousCommitHash, previousTmpFile, leftFilePromise, rightFilePromise,
          settled, files, titleLeft, titleRight, titleOut, titleSwapped>>

Unissued == [state |-> "unissued", value |-> NoUri]
NoTitle == <<>>
NoInput == [file |-> NoUri, hash |-> NoHash]

\* A request arrives: the handler has been called and nothing has run yet.
Init ==
    /\ handler \in Handlers
    /\ fileCommit \in FileCommits(handler)
    /\ pc = "start"
    /\ failedAt = "none"
    /\ gitCalls = <<>>
    /\ existsCalls = <<>>
    /\ ui = <<>>
    /\ tmpFile = NoUri
    /\ previousCommitHash = NoHash
    /\ previousTmpFile = NoUri
    /\ leftFilePromise = Unissued
    /\ rightFilePromise = Unissued
    /\ settled = <<>>
    /\ files = <<NoUri, NoUri>>
    /\ titleLeft = NoInput
    /\ titleRight = NoInput
    /\ titleOut = NoTitle
    /\ titleSwapped = NoTitle

\* ------------------------------------------------------- external calls
GetCommitFileCall(hashFull, file) ==
    [op |-> "getCommitFile", hash |-> hashFull, file |-> file]

GetPreviousCommitHashForFileCall(hashFull, file) ==
    [op |-> "getPreviousCommitHashForFile", hash |-> hashFull, file |-> file]

ViewCall(command, file) == [kind |-> "view", command |-> command, file |-> file]

DiffCall(left, right, title) ==
    [kind |-> "diff", command |-> "vscode.diff", left |-> left, right |-> right,
     title |-> title, preview |-> TRUE]

ExistsCall(path, result) == [path |-> path, result |-> result]

WarningCall(message) == [kind |-> "warning", message |-> message]

\* The handler's promise rejects because the awaited call `call` rejected.
Reject(call) ==
    /\ pc' = "rejected"
    /\ failedAt' = call

\* return this.applicationShell.showErrorMessage(message).then(() => void 0)
showErrorMessage(message) ==
    /\ \E ok \in BOOLEAN :
        IF ok
        THEN /\ ui' = Append(ui, WarningCall(message))
             /\ pc' = "resolved"
             /\ UNCHANGED failedAt
        ELSE /\ Reject("showErrorMessage")
             /\ UNCHANGED ui
    /\ UNCHANGED <<handler, fileCommit, gitCalls, existsCalls, tmpFile, previousCommitHash,
                   previousTmpFile, leftFilePromise, rightFilePromise, settled, files>>
    /\ UNCHANGED titleVars

\* await this.commandManager.executeCommand(...), then continue at `next`
executeCommand(call, next) ==
    /\ \E ok \in BOOLEAN :
        IF ok
        THEN /\ ui' = Append(ui, call)
             /\ pc' = next
             /\ UNCHANGED failedAt
        ELSE /\ Reject("executeCommand")
             /\ UNCHANGED ui
    /\ UNCHANGED <<handler, fileCommit, gitCalls, existsCalls, tmpFile, previousCommitHash,
                   previousTmpFile, leftFilePromise, rightFilePromise, settled, files>>
    /\ UNCHANGED titleVars

\* const tmpFile = await gitService.getCommitFile(hashFull, file)
awaitTmpFile(hashFull, file, next) ==
    /\ gitCalls' = Append(gitCalls, GetCommitFileCall(hashFull, file))
    /\ \E ok \in BOOLEAN :
        IF ok
        THEN /\ tmpFile' = CommitFile(hashFull, file)
             /\ pc' = next
             /\ UNCHANGED failedAt
        ELSE /\ Reject("getCommitFile")
             /\ UNCHANGED tmpFile
    /\ UNCHANGED <<handler, fileCommit, existsCalls, ui, previousCommitHash,
                   previousTmpFile, leftFilePromise, rightFilePromise, settled, files>>
    /\ UNCHANGED titleVars

\* const previousCommitHash = await gitService.getPreviousCommitHashForFile(hash.full, uri)
\* The predecessor is another commit than the one asked about.
awaitPreviousCommitHash(next) ==
    /\ gitCalls' = Append(gitCalls,
            GetPreviousCommitHashForFileCall(fileCommit.hash.full, fileCommit.uri))
    /\ \/ /\ \E prev \in Hashes \ {fileCommit.hash} : previousCommitHash' = prev
          /\ pc' = next
          /\ UNCHANGED failedAt
       \/ /\ Reject("getPreviousCommitHashForFile")
          /\ UNCHANGED previousCommitHash
    /\ UNCHANGED <<handler, fileCommit, existsCalls, ui, tmpFile,
                   previousTmpFile, leftFilePromise, rightFilePromise, settled, files>>
    /\ UNCHANGED titleVars

\* const previousTmpFile = await gitService.getCommitFile(previousCommitHash.full, previousFile)
awaitPreviousTmpFile(next) ==
    /\ gitCalls' = Append(gitCalls,
            GetCommitFileCall(previousCommitHash.full, previousFile(fileCommit)))
    /\ \E ok \in BOOLEAN :
        IF ok
        THEN /\ previousTmpFile' = CommitFile(previousCommitHash.full, previousFile(fileCommit))
             /\ pc' = next
             /\ UNCHANGED failedAt
        ELSE /\ Reject("getCommitFile")
             /\ UNCHANGED previousTmpFile
    /\ UNCHANGED <<handler, fileCommit, existsCalls, ui, tmpFile, previousCommitHash,
                   leftFilePromise, rightFilePromise, settled, files>>
    /\ UNCHANGED titleVars

\* const gitService = await serviceContainer.get(IGitServiceFactory).createGitService(...)
createGitService ==
    /\ pc = "start"
    /\ \E ok \in BOOLEAN :
        IF ok
        THEN /\ pc' = "body"
             /\ UNCHANGED failedAt
        ELSE Reject("createGitService")
    /\ UNCHANGED <<handler, fileCommit, gitCalls, existsCalls, ui, tmpFile, previousCommitHash,
                   previousTmpFile, leftFilePromise, rightFilePromise, settled, files>>
    /\ UNCHANGED titleVars

\* ---------------------------------------------------------------- viewFile
\* Faulty variant: a deleted file makes the handler return without a message.
viewFileDeletedSilent ==
    /\ handler = "viewFile" /\ pc = "body"
    /\ fileCommit.status = "Deleted"
    /\ pc' = "resolved"
    /\ UNCHANGED <<handler, fileCommit, failedAt, gitCalls, existsCalls, ui, tmpFile,
                   previousCommitHash, previousTmpFile, leftFilePromise, rightFilePromise,
                   settled, files>>
    /\ UNCHANGED titleVars

viewFileDeleted ==
    /\ handler = "viewFile" /\ pc = "body"
    /\ fileCommit.status = "Deleted"
    /\ showErrorMessage("File cannot be viewed as it was deleted")

viewFileGetCommitFile ==
    /\ handler = "viewFile" /\ pc = "body"
    /\ fileCommit.status # "Deleted"
    /\ awaitTmpFile(fileCommit.hash.full, fileCommit.uri, "viewFile.open")

viewFileOpen ==
    /\ handler = "viewFile" /\ pc = "viewFile.open"
    /\ executeCommand(ViewCall("git.openFileInViewer", tmpFile), "resolved")

\* ------------------------------------------------ compareFileWithWorkspace
compareFileWithWorkspaceDeleted ==
    /\ handler = "compareFileWithWorkspace" /\ pc = "body"
    /\ fileCommit.status = "Deleted"
    /\ showErrorMessage("File cannot be compared with, as it was deleted")

\* Faulty variant: the existence check comes first, whatever the status.
compareFileWithWorkspaceExistsFirst ==
    /\ handler = "compareFileWithWorkspace" /\ pc = "body"
    /\ \/ /\ existsCalls' = Append(existsCalls, ExistsCall(fileCommit.uri.path, "true"))
          /\ pc' = "compareFileWithWorkspace.fetch"
          /\ UNCHANGED failedAt
       \/ /\ existsCalls' = Append(existsCalls, ExistsCall(fileCommit.uri.path, "false"))
          /\ pc' = "compareFileWithWorkspace.absent"
          /\ UNCHANGED failedAt
       \/ /\ existsCalls' = Append(existsCalls, ExistsCall(fileCommit.uri.path, "rejected"))
          /\ Reject("fileExistsAsync")
    /\ UNCHANGED <<handler, fileCommit, gitCalls, ui, tmpFile, previousCommitHash,
                   previousTmpFile, leftFilePromise, rightFilePromise, settled, files>>
    /\ UNCHANGED titleVars

\* await this.fileSystem.fileExistsAsync(uri.path): true, false, or a rejection
compareFileWithWorkspaceFileExists ==
    /\ handler = "compareFileWithWorkspace" /\ pc = "body"
    /\ fileCommit.status # "Deleted"
    /\ \/ /\ existsCalls' = Append(existsCalls, ExistsCall(fileCommit.uri.path, "true"))
          /\ pc' = "compareFileWithWorkspace.fetch"
          /\ UNCHANGED failedAt
       \/ /\ existsCalls' = Append(existsCalls, ExistsCall(fileCommit.uri.path, "false"))
          /\ pc' = "compareFileWithWorkspace.absent"
          /\ UNCHANGED failedAt
       \/ /\ existsCalls' = Append(existsCalls, ExistsCall(fileCommit.uri.path, "rejected"))
          /\ Reject("fileExistsAsync")
    /\ UNCHANGED <<handler, fileCommit, gitCalls, ui, tmpFile, previousCommitHash,
                   previousTmpFile, leftFilePromise, rightFilePromise, settled, files>>
    /\ UNCHANGED titleVars

compareFileWithWorkspaceAbsent ==
    /\ handler = "compareFileWithWorkspace" /\ pc = "compareFileWithWorkspace.absent"
    /\ showErrorMessage("Corresponding workspace file does not exist")

compareFileWithWorkspaceGetCommitFile ==
    /\ handler = "compareFileWithWorkspace" /\ pc = "compareFileWithWorkspace.fetch"
    /\ awaitTmpFile(fileCommit.hash.full, fileCommit.uri, "compareFileWithWorkspace.diff")

compareFileWithWorkspaceDiff ==
    /\ handler = "compareFileWithWorkspace" /\ pc = "compareFileWithWorkspace.diff"
    /\ executeCommand(DiffCall(UriFile(fsPath(tmpFile)), UriFile(fileCommit.uri.path),
                               WorkspaceTitle(fileCommit)),
                      "resolved")

\* ------------------------------------------------- compareFileWithPrevious
\* Faulty variant: the warning is shown before anything is looked up or fetched.
compareFileWithPreviousDeletedWarnFirst ==
    /\ handler = "compareFileWithPrevious" /\ pc = "body"
    /\ fileCommit.status = "Deleted"
    /\ ui' = Append(ui, WarningCall("File cannot be compared with, as it was deleted. Showing deleted version."))
    /\ gitCalls' = Append(gitCalls,
            GetPreviousCommitHashForFileCall(fileCommit.hash.full, fileCommit.uri))
    /\ \/ /\ \E prev \in Hashes \ {fileCommit.hash} : previousCommitHash' = prev
          /\ pc' = "compareFileWithPrevious.deleted.fetch"
          /\ UNCHANGED failedAt
       \/ /\ Reject("getPreviousCommitHashForFile")
          /\ UNCHANGED previousCommitHash
    /\ UNCHANGED <<handler, fileCommit, existsCalls, tmpFile,
                   previousTmpFile, leftFilePromise, rightFilePromise, settled, files>>
    /\ UNCHANGED titleVars

compareFileWithPreviousDeletedLookup ==
    /\ handler = "compareFileWithPrevious" /\ pc = "body"
    /\ fileCommit.status = "Deleted"
    /\ awaitPreviousCommitHash("compareFileWithPrevious.deleted.fetch")

compareFileWithPreviousDeletedGetCommitFile ==
    /\ handler = "compareFileWithPrevious" /\ pc = "compareFileWithPrevious.deleted.fetch"
    /\ awaitPreviousTmpFile("compareFileWithPrevious.deleted.open")

compareFileWithPreviousDeletedOpen ==
    /\ handler = "compareFileWithPrevious" /\ pc = "compareFileWithPrevious.deleted.open"
    /\ executeCommand(ViewCall("vscode.open", previousTmpFile),
                      "compareFileWithPrevious.deleted.warn")

compareFileWithPreviousDeletedWarn ==
    /\ handler = "compareFileWithPrevious" /\ pc = "compareFileWithPrevious.deleted.warn"
    /\ showErrorMessage("File cannot be compared with, as it was deleted. Showing deleted version.")

\* Faulty variant: the new file is fetched only after a predecessor lookup.
compareFileWithPreviousAddedWithLookup ==
    /\ handler = "compareFileWithPrevious" /\ pc = "body"
    /\ fileCommit.status = "Added"
    /\ gitCalls' = gitCalls \o
            <<GetPreviousCommitHashForFileCall(fileCommit.hash.full, fileCommit.uri),
              GetCommitFileCall(fileCommit.hash.full, fileCommit.uri)>>
    /\ \E ok \in BOOLEAN :
        IF ok
        THEN /\ tmpFile' = CommitFile(fileCommit.hash.full, fileCommit.uri)
             /\ pc' = "compareFileWithPrevious.added.open"
             /\ UNCHANGED failedAt
        ELSE /\ Reject("getCommitFile")
             /\ UNCHANGED tmpFile
    /\ UNCHANGED <<handler, fileCommit, existsCalls, ui, previousCommitHash,
                   previousTmpFile, leftFilePromise, rightFilePromise, settled, files>>
    /\ UNCHANGED titleVars

compareFileWithPreviousAddedGetCommitFile ==
    /\ handler = "compareFileWithPrevious" /\ pc = "body"
    /\ fileCommit.status = "Added"
    /\ awaitTmpFile(fileCommit.hash.full, fileCommit.uri, "compareFileWithPrevious.added.open")

compareFileWithPreviousAddedOpen ==
    /\ handler = "compareFileWithPrevious" /\ pc = "compareFileWithPrevious.added.open"
    /\ executeCommand(ViewCall("vscode.open", tmpFile), "compareFileWithPrevious.added.warn")

\* Faulty variant: the handler returns after opening the file, without the message.
compareFileWithPreviousAddedWarnSkipped ==
    /\ handler = "compareFileWithPrevious" /\ pc = "compareFileWithPrevious.added.warn"
    /\ pc' = "resolved"
    /\ UNCHANGED <<handler, fileCommit, failedAt, gitCalls, existsCalls, ui, tmpFile,
                   previousCommitHash, previousTmpFile, leftFilePromise, rightFilePromise,
                   settled, files>>
    /\ UNCHANGED titleVars

compareFileWithPreviousAddedWarn ==
    /\ handler = "compareFileWithPrevious" /\ pc = "compareFileWithPrevious.added.warn"
    /\ showErrorMessage("File cannot be compared with previous, as this is a new file. Showing it.")

\* Faulty variant: the predecessor is looked up and fetched before this revision.
compareFileWithPreviousPredecessorFirst ==
    /\ handler = "compareFileWithPrevious" /\ pc = "body"
    /\ fileCommit.status \notin {"Deleted", "Added"}
    /\ \E prev \in Hashes \ {fileCommit.hash} :
        /\ previousCommitHash' = prev
        /\ previousTmpFile' = CommitFile(prev.full, previousFile(fileCommit))
        /\ gitCalls' = gitCalls \o
                <<GetPreviousCommitHashForFileCall(fileCommit.hash.full, fileCommit.uri),
                  GetCommitFileCall(prev.full, previousFile(fileCommit)),
                  GetCommitFileCall(fileCommit.hash.full, fileCommit.uri)>>
    /\ tmpFile' = CommitFile(fileCommit.hash.full, fileCommit.uri)
    /\ pc' = "compareFileWithPrevious.diff"
    /\ UNCHANGED <<handler, fileCommit, failedAt, existsCalls, ui,
                   leftFilePromise, rightFilePromise, settled, files>>
    /\ UNCHANGED titleVars

compareFileWithPreviousGetCommitFile ==
    /\ handler = "compareFileWithPrevious" /\ pc = "body"
    /\ fileCommit.status \notin {"Deleted", "Added"}
    /\ awaitTmpFile(fileCommit.hash.full, fileCommit.uri, "compareFileWithPrevious.lookup")

compareFileWithPreviousLookup ==
    /\ handler = "compareFileWithPrevious" /\ pc = "compareFileWithPrevious.lookup"
    /\ awaitPreviousCommitHash("compareFileWithPrevious.fetchPrevious")

compareFileWithPreviousGetPreviousCommitFile ==
    /\ handler = "compareFileWithPrevious" /\ pc = "compareFileWithPrevious.fetchPrevious"
    /\ awaitPreviousTmpFile("compareFileWithPrevious.diff")

\* Faulty variant: the two sides of the diff are exchanged.
compareFileWithPreviousDiffSwapped ==
    /\ handler = "compareFileWithPrevious" /\ pc = "compareFileWithPrevious.diff"
    /\ executeCommand(
            DiffCall(tmpFile, previousTmpFile,
                     getComparisonTitle(
                        [file |-> UriFile(previousFile(fileCommit).path), hash |-> previousCommitHash],
                        [file |-> UriFile(fileCommit.uri.path), hash |-> fileCommit.hash])),
            "resolved")

compareFileWithPreviousDiff ==
    /\ handler = "compareFileWithPrevious" /\ pc = "compareFileWithPrevious.diff"
    /\ executeCommand(
            DiffCall(previousTmpFile, tmpFile,
                     getComparisonTitle(
                        [file |-> UriFile(previousFile(fileCommit).path), hash |-> previousCommitHash],
                        [file |-> UriFile(fileCommit.uri.path), hash |-> fileCommit.hash])),
            "resolved")

\* -------------------------------------------------------- viewPreviousFile
viewPreviousFileAdded ==
    /\ handler = "viewPreviousFile" /\ pc = "body"
    /\ fileCommit.status = "Added"
    /\ showErrorMessage("Previous version of the file cannot be opened, as this is a new file")

viewPreviousFileLookup ==
    /\ handler = "viewPreviousFile" /\ pc = "body"
    /\ fileCommit.status # "Added"
    /\ awaitPreviousCommitHash("viewPreviousFile.fetch")

viewPreviousFileGetCommitFile ==
    /\ handler = "viewPreviousFile" /\ pc = "viewPreviousFile.fetch"
    /\ awaitPreviousTmpFile("viewPreviousFile.open")

viewPreviousFileOpen ==
    /\ handler = "viewPreviousFile" /\ pc = "viewPreviousFile.open"
    /\ executeCommand(ViewCall("git.openFileInViewer", UriFile(fsPath(previousTmpFile))),
                      "resolved")

\* ------------------------------------------------ compareFileAcrossCommits
compareFileAcrossCommitsDeleted ==
    /\ handler = "compareFileAcrossCommits" /\ pc = "body"
    /\ fileCommit.status = "Deleted"
    /\ showErrorMessage("File cannot be compared with, as it was deleted")

compareFileAcrossCommitsAdded ==
    /\ handler = "compareFileAcrossCommits" /\ pc = "body"
    /\ fileCommit.status # "Deleted"
    /\ fileCommit.status = "Added"
    /\ showErrorMessage("File cannot be compared, as this is a new file")

Pending(hashFull, file) == [state |-> "pending", value |-> CommitFile(hashFull, file)]

\* Both getCommitFile calls are made, neither is awaited yet.
compareFileAcrossCommitsGetCommitFiles ==
    /\ handler = "compareFileAcrossCommits" /\ pc = "body"
    /\ fileCommit.status \notin {"Deleted", "Added"}
    /\ gitCalls' = gitCalls \o <<GetCommitFileCall(fileCommit.hash.full, fileCommit.uri),
                                 GetCommitFileCall(fileCommit.rightHash.full, fileCommit.uri)>>
    /\ leftFilePromise' = Pending(fileCommit.hash.full, fileCommit.uri)
    /\ rightFilePromise' = Pending(fileCommit.rightHash.full, fileCommit.uri)
    /\ pc' = "compareFileAcrossCommits.all"
    /\ UNCHANGED <<handler, fileCommit, failedAt, existsCalls, ui, tmpFile, previousCommitHash,
                   previousTmpFile, settled, files>>
    /\ UNCHANGED titleVars

Settle(promise, ok) ==
    [state |-> IF ok THEN "fulfilled" ELSE "rejected",
     value |-> IF ok THEN promise.value ELSE NoUri]

\* The git service settles leftFilePromise, whatever the handler is doing.
leftFileSettles ==
    /\ leftFilePromise.state = "pending"
    /\ \E ok \in BOOLEAN : leftFilePromise' = Settle(leftFilePromise, ok)
    /\ settled' = Append(settled, "left")
    /\ UNCHANGED <<handler, fileCommit, pc, failedAt, gitCalls, existsCalls, ui, tmpFile,
                   previousCommitHash, previousTmpFile, rightFilePromise, files>>
    /\ UNCHANGED titleVars

\* The git service settles rightFilePromise, whatever the handler is doing.
rightFileSettles ==
    /\ rightFilePromise.state = "pending"
    /\ \E ok \in BOOLEAN : rightFilePromise' = Settle(rightFilePromise, ok)
    /\ settled' = Append(settled, "right")
    /\ UNCHANGED <<handler, fileCommit, pc, failedAt, gitCalls, existsCalls, ui, tmpFile,
                   previousCommitHash, previousTmpFile, leftFilePromise, files>>
    /\ UNCHANGED titleVars

\* Faulty variant: the results come in the order in which the promises settled.
PromiseAllInSettlingOrder(left, right, order) ==
    IF order[1] = "left" THEN <<left.value, right.value>> ELSE <<right.value, left.value>>

\* Promise.all([left, right]) once both are fulfilled: the values in argument order.
PromiseAll(left, right, order) == <<left.value, right.value>>

\* const [leftFile, rightFile] = await Promise.all([leftFilePromise, rightFilePromise])
\* resolves once both are fulfilled, rejects as soon as one is rejected.
compareFileAcrossCommitsAwaitAll ==
    /\ handler = "compareFileAcrossCommits" /\ pc = "compareFileAcrossCommits.all"
    /\ \/ /\ leftFilePromise.state = "fulfilled"
          /\ rightFilePromise.state = "fulfilled"
          /\ files' = PromiseAll(leftFilePromise, rightFilePromise, settled)
          /\ pc' = "compareFileAcrossCommits.diff"
          /\ UNCHANGED failedAt
       \/ /\ "rejected" \in {leftFilePromise.state, rightFilePromise.state}
          /\ Reject("getCommitFile")
          /\ UNCHANGED files
    /\ UNCHANGED <<handler, fileCommit, gitCalls, existsCalls, ui, tmpFile, previousCommitHash,
                   previousTmpFile, leftFilePromise, rightFilePromise, settled>>
    /\ UNCHANGED titleVars

compareFileAcrossCommitsDiff ==
    /\ handler = "compareFileAcrossCommits" /\ pc = "compareFileAcrossCommits.diff"
    /\ executeCommand(
            DiffCall(files[1], files[2],
                     getComparisonTitle(
                        [file |-> UriFile(fileCommit.uri.path), hash |-> fileCommit.hash],
                        [file |-> UriFile(fileCommit.uri.path), hash |-> fileCommit.rightHash])),
            "resolved")

\* ------------------------------------------------------------ behaviours
Next ==
    \/ createGitService
    \/ viewFileDeleted
    \/ viewFileGetCommitFile
    \/ viewFileOpen
    \/ compareFileWithWorkspaceDeleted
    \/ compareFileWithWorkspaceFileExists
    \/ compareFileWithWorkspaceAbsent
    \/ compareFileWithWorkspaceGetCommitFile
    \/ compareFileWithWorkspaceDiff
    \/ compareFileWithPreviousDeletedLookup
    \/ compareFileWithPreviousDeletedGetCommitFile
    \/ compareFileWithPreviousDeletedOpen
    \/ compareFileWithPreviousDeletedWarn
    \/ compareFileWithPreviousAddedGetCommitFile
    \/ compareFileWithPreviousAddedOpen
    \/ compareFileWithPreviousAddedWarn
    \/ compareFileWithPreviousGetCommitFile
    \/ compareFileWithPreviousLookup
    \/ compareFileWithPreviousGetPreviousCommitFile
    \/ compareFileWithPreviousDiff
    \/ viewPreviousFileAdded
    \/ viewPreviousFileLookup
    \/ viewPreviousFileGetCommitFile
    \/ viewPreviousFileOpen
    \/ compareFileAcrossCommitsDeleted
    \/ compareFileAcrossCommitsAdded
    \/ compareFileAcrossCommitsGetCommitFiles
    \/ leftFileSettles
    \/ rightFileSettles
    \/ compareFileAcrossCommitsAwaitAll
    \/ compareFileAcrossCommitsDiff

Spec == Init /\ [][Next]_vars

\* ------------------------------------------- the title formatter on its own
TitleInputs == {[file |-> UriFile(p), hash |-> h] : p \in Paths, h \in Hashes}

InitTitle ==
    /\ handler = "getComparisonTitle"
    /\ fileCommit = [status |-> "Modified", uri |-> NoUri, oldUri |-> NoUri,
                     hash |-> NoHash, rightHash |-> NoHash]
    /\ pc = "title"
    /\ failedAt = "none"
    /\ gitCalls = <<>>
    /\ existsCalls = <<>>
    /\ ui = <<>>
    /\ tmpFile = NoUri
    /\ previousCommitHash = NoHash
    /\ previousTmpFile = NoUri
    /\ leftFilePromise = Unissued
    /\ rightFilePromise = Unissued
    /\ settled = <<>>
    /\ files = <<NoUri, NoUri>>
    /\ titleLeft \in TitleInputs
    /\ titleRight \in TitleInputs
    /\ titleOut = NoTitle
    /\ titleSwapped = NoTitle

\* format(L, R)
formatTitle ==
    /\ pc = "title"
    /\ titleOut = NoTitle
    /\ titleOut' = getComparisonTitle(titleLeft, titleRight)
    /\ UNCHANGED <<titleLeft, titleRight, titleSwapped>>
    /\ UNCHANGED handlerVars

\* format(R, L)
formatSwapped ==
    /\ pc = "title"
    /\ titleSwapped = NoTitle
    /\ titleSwapped' = getComparisonTitle(titleRight, titleLeft)
    /\ UNCHANGED <<titleLeft, titleRight, titleOut>>
    /\ UNCHANGED handlerVars

NextTitle == formatTitle \/ formatSwapped

SpecTitle == InitTitle /\ [][NextTitle]_vars

\* ---------------------------------------------------------------- claims
IsFetch(c) == c.op = "getCommitFile"
IsLookup(c) == c.op = "getPreviousCommitHashForFile"
Fetches == SelectSeq(gitCalls, IsFetch)
Lookups == SelectSeq(gitCalls, IsLookup)
Kinds == [i \in 1..Len(ui) |-> ui[i].kind]
Shown(kind) == \E i \in 1..Len(ui) : ui[i].kind = kind
Degrades ==
    handler = "compareFileWithPrevious" /\ fileCommit.status \in {"Deleted", "Added"}
Compares ==
    handler = "compareFileWithPrevious" /\ fileCommit.status \notin {"Deleted", "Added"}
PreviousOrCurrent == IF fileCommit.oldUri # NoUri THEN fileCommit.oldUri ELSE fileCommit.uri
Arrow == <<" ", "<->", " ">>

\* C1 as stated: a handler whose external calls all succeeded has made exactly
\* one presentation (a single-file view, a diff view or a warning).
C1_ExactlyOnePresentation ==
    pc = "resolved" => Len(ui) = 1

\* C1 amended: a handler whose external calls all succeeded has made exactly
\* one presentation, except compareFileWithPrevious on a Deleted or Added
\* file, which has made two: the single-file view, then the warning.  Never
\* none, never more than two, and a diff view is never joined by another.
C1_OnePresentationUnlessDegraded ==
    /\ pc = "resolved" =>
            IF Degrades THEN Kinds = <<"view", "warning">>
            ELSE Len(ui) = 1 /\ Kinds[1] \in {"view", "diff", "warning"}
    /\ Len(ui) <= (IF Degrades THEN 2 ELSE 1)
    /\ Shown("diff") => Len(ui) = 1

C1_Witness ==
    /\ pc = "resolved"
    /\ handler = "compareFileWithPrevious"
    /\ fileCommit.status = "Added"
    /\ Len(ui) = 2

\* C2: a handler that completes without having asked for any snapshot has
\* shown a warning with a non-empty text.
C2_NoFetchMeansWarning ==
    (pc = "resolved" /\ Fetches = <<>>) =>
        \E i \in 1..Len(ui) : ui[i].kind = "warning" /\ ui[i].message # ""

C2_Witness ==
    /\ pc = "resolved"
    /\ Fetches = <<>>
    /\ handler = "viewFile"
    /\ fileCommit.status = "Deleted"

\* C3: compareFileWithPrevious on a file that is neither Deleted nor Added
\* never warns, and once it completes it has fetched exactly (this revision,
\* current path) and (predecessor, previous-or-current path) and opened the
\* diff with the predecessor's snapshot on the left, this revision's on the
\* right, titled from (previous-or-current path @ predecessor) and (current
\* path @ this revision) in that order.
C3_CompareWithPreviousDiff ==
    Compares =>
        /\ ~Shown("warning")
        /\ pc = "resolved" =>
            /\ Len(Fetches) = 2
            /\ {Fetches[1], Fetches[2]} =
                    {GetCommitFileCall(fileCommit.hash.full, fileCommit.uri),
                     GetCommitFileCall(previousCommitHash.full, PreviousOrCurrent)}
            /\ ui = <<DiffCall(CommitFile(previousCommitHash.full, PreviousOrCurrent),
                               CommitFile(fileCommit.hash.full, fileCommit.uri),
                               getComparisonTitle(
                                   [file |-> UriFile(PreviousOrCurrent.path),
                                    hash |-> previousCommitHash],
                                   [file |-> UriFile(fileCommit.uri.path),
                                    hash |-> fileCommit.hash]))>>

C3_Witness ==
    /\ Compares
    /\ pc = "resolved"
    /\ fileCommit.status = "Renamed"
    /\ fileCommit.oldUri # NoUri
    /\ fileCommit.oldUri # fileCommit.uri
    /\ Shown("diff")

\* C4: in compareFileWithPrevious and viewPreviousFile every snapshot asked
\* for at the predecessor revision is asked for with the previous path when
\* the entry records one, and with the current path only when it records none.
C4_RenameRule ==
    handler \in {"compareFileWithPrevious", "viewPreviousFile"} =>
        /\ \A i \in 1..Len(gitCalls) :
            (IsFetch(gitCalls[i]) /\ previousCommitHash # NoHash
                /\ gitCalls[i].hash = previousCommitHash.full)
            => /\ fileCommit.oldUri # NoUri => gitCalls[i].file = fileCommit.oldUri
               /\ fileCommit.oldUri = NoUri => gitCalls[i].file = fileCommit.uri
        /\ previousTmpFile # NoUri =>
            previousTmpFile = CommitFile(previousCommitHash.full, PreviousOrCurrent)

C4_Witness ==
    /\ handler = "viewPreviousFile"
    /\ fileCommit.oldUri # NoUri
    /\ fileCommit.oldUri # fileCommit.uri
    /\ previousTmpFile # NoUri
    /\ \E i \in 1..Len(gitCalls) :
        IsFetch(gitCalls[i]) /\ gitCalls[i].hash = previousCommitHash.full

\* C5: compareFileWithPrevious on a Deleted file fetches one snapshot, the
\* predecessor's at the previous-or-current path; on an Added file it fetches
\* one snapshot, this revision's at the current path, and looks up no
\* predecessor.  When it completes, that snapshot has been opened in a
\* single-file view and then the warning has been shown; no diff is opened.
C5_DegradeToView ==
    Degrades =>
        /\ ~Shown("diff")
        /\ Len(Fetches) <= 1
        /\ fileCommit.status = "Added" => Lookups = <<>>
        /\ (pc = "resolved" /\ fileCommit.status = "Deleted") =>
            /\ Fetches = <<GetCommitFileCall(previousCommitHash.full, PreviousOrCurrent)>>
            /\ ui = <<ViewCall("vscode.open",
                               CommitFile(previousCommitHash.full, PreviousOrCurrent)),
                      WarningCall("File cannot be compared with, as it was deleted. Showing deleted version.")>>
        /\ (pc = "resolved" /\ fileCommit.status = "Added") =>
            /\ Fetches = <<GetCommitFileCall(fileCommit.hash.full, fileCommit.uri)>>
            /\ ui = <<ViewCall("vscode.open", CommitFile(fileCommit.hash.full, fileCommit.uri)),
                      WarningCall("File cannot be compared with previous, as this is a new file. Showing it.")>>

C5_Witness ==
    /\ Degrades
    /\ pc = "resolved"
    /\ fileCommit.status = "Deleted"
    /\ fileCommit.oldUri # NoUri
    /\ Len(ui) = 2

\* C6: compareFileAcrossCommits on a file that is neither Deleted nor Added
\* asks for both snapshots before either has come back, opens the diff only
\* when both have come back, and whichever came back first the diff has the
\* left revision's snapshot on the left and the right revision's on the
\* right, with the title's hashes in the same order.
C6_LeftRightPreserved ==
    (handler = "compareFileAcrossCommits" /\ fileCommit.status \notin {"Deleted", "Added"}) =>
        /\ gitCalls # <<>> =>
                gitCalls = <<GetCommitFileCall(fileCommit.hash.full, fileCommit.uri),
                             GetCommitFileCall(fileCommit.rightHash.full, fileCommit.uri)>>
        /\ (leftFilePromise.state = "unissued") = (rightFilePromise.state = "unissued")
        /\ ui # <<>> =>
            /\ leftFilePromise.state = "fulfilled"
            /\ rightFilePromise.state = "fulfilled"
            /\ Len(ui) = 1
            /\ ui[1].kind = "diff"
            /\ ui[1].left = CommitFile(fileCommit.hash.full, fileCommit.uri)
            /\ ui[1].right = CommitFile(fileCommit.rightHash.full, fileCommit.uri)
            /\ ui[1].title = basename(fileCommit.uri.path) \o <<" ", "(">>
                                \o fileCommit.hash.short \o Arrow
                                \o fileCommit.rightHash.short \o <<")">>

C6_Witness ==
    /\ handler = "compareFileAcrossCommits"
    /\ Shown("diff")
    /\ settled = <<"right", "left">>
    /\ fileCommit.hash.short # fileCommit.rightHash.short

\* C7: when a predecessor lookup or a snapshot fetch fails, the handler ends
\* in failure having presented nothing; a failed fetch of a pair keeps the
\* handler from ever presenting anything, whatever the other fetch does.
C7_FailureShowsNothing ==
    /\ (pc = "rejected" /\ failedAt \in {"getCommitFile", "getPreviousCommitHashForFile"})
            => ui = <<>>
    /\ "rejected" \in {leftFilePromise.state, rightFilePromise.state} =>
            /\ ui = <<>>
            /\ pc \in {"compareFileAcrossCommits.all", "rejected"}
            /\ pc = "rejected" => failedAt = "getCommitFile"

C7_Witness ==
    /\ pc = "rejected"
    /\ failedAt = "getCommitFile"
    /\ leftFilePromise.state = "rejected"
    /\ rightFilePromise.state = "fulfilled"

\* C8: compareFileWithWorkspace on a Deleted file never asks whether the
\* workspace file exists and fetches nothing, and shows the deleted warning;
\* on any other file it asks once, and if the answer is no it fetches nothing
\* and shows 'Corresponding workspace file does not exist'; otherwise it
\* fetches (this revision, this file) only and opens a diff of that snapshot
\* (left) against the workspace file (right).
C8_CompareWithWorkspace ==
    handler = "compareFileWithWorkspace" =>
        /\ fileCommit.status = "Deleted" =>
            /\ existsCalls = <<>>
            /\ gitCalls = <<>>
            /\ pc = "resolved" =>
                ui = <<WarningCall("File cannot be compared with, as it was deleted")>>
        /\ fileCommit.status # "Deleted" =>
            /\ Len(existsCalls) <= 1
            /\ gitCalls # <<>> =>
                /\ existsCalls = <<ExistsCall(fileCommit.uri.path, "true")>>
                /\ gitCalls = <<GetCommitFileCall(fileCommit.hash.full, fileCommit.uri)>>
            /\ (pc = "resolved" /\ existsCalls = <<ExistsCall(fileCommit.uri.path, "false")>>) =>
                /\ gitCalls = <<>>
                /\ ui = <<WarningCall("Corresponding workspace file does not exist")>>
            /\ (pc = "resolved" /\ existsCalls # <<ExistsCall(fileCommit.uri.path, "false")>>) =>
                /\ existsCalls = <<ExistsCall(fileCommit.uri.path, "true")>>
                /\ gitCalls = <<GetCommitFileCall(fileCommit.hash.full, fileCommit.uri)>>
                /\ Len(ui) = 1
                /\ ui[1].kind = "diff"
                /\ ui[1].left = CommitFile(fileCommit.hash.full, fileCommit.uri)
                /\ ui[1].right = fileCommit.uri

C8_Witness ==
    /\ handler = "compareFileWithWorkspace"
    /\ pc = "resolved"
    /\ fileCommit.status = "Modified"
    /\ Shown("diff")

TitlesComputed == titleOut # NoTitle /\ titleSwapped # NoTitle
SameNameAndShortHash ==
    /\ basename(titleLeft.file.path) = basename(titleRight.file.path)
    /\ titleLeft.hash.short = titleRight.hash.short

\* C9 as stated: for any two inputs L and R, format(L, R) differs from
\* format(R, L).
C9_SwapChangesTitle ==
    TitlesComputed => titleOut # titleSwapped

\* C9 amended: the formatter yields a title for every pair of inputs, and
\* format(L, R) differs from format(R, L) exactly when L and R differ in base
\* name or in short hash; with the same base name and the same short hash on
\* both sides the two titles are the same.
C9_SwapChangesTitleUnlessAlike ==
    /\ titleOut # NoTitle =>
        /\ Len(titleOut) > 0
        /\ titleOut[Len(titleOut)] = ")"
    /\ TitlesComputed => ((titleOut = titleSwapped) <=> SameNameAndShortHash)

C9_Witness ==
    /\ TitlesComputed
    /\ basename(titleLeft.file.path) = basename(titleRight.file.path)
    /\ titleLeft.file # titleRight.file
    /\ titleLeft.hash.short # titleRight.hash.short
    /\ titleOut # titleSwapped

\* C10 as stated: in compareFileWithPrevious on a Modified or Renamed file the
\* predecessor's snapshot is asked for before this revision's snapshot.
C10_PredecessorFetchedFirst ==
    Compares =>
        \A i \in 1..Len(gitCalls) :
            gitCalls[i] = GetCommitFileCall(fileCommit.hash.full, fileCommit.uri) =>
                \E j \in 1..(i - 1) :
                    IsFetch(gitCalls[j]) /\ gitCalls[j].hash # fileCommit.hash.full

\* C10 amended: in compareFileWithPrevious on a Modified or Renamed file this
\* revision's snapshot is asked for first, then the predecessor is looked up,
\* then the predecessor's snapshot is asked for.
C10_CurrentFetchedFirst ==
    Compares =>
        /\ Len(gitCalls) <= 3
        /\ Len(gitCalls) >= 1 =>
            gitCalls[1] = GetCommitFileCall(fileCommit.hash.full, fileCommit.uri)
        /\ Len(gitCalls) >= 2 =>
            gitCalls[2] = GetPreviousCommitHashForFileCall(fileCommit.hash.full, fileCommit.uri)
        /\ Len(gitCalls) >= 3 =>
            gitCalls[3] = GetCommitFileCall(previousCommitHash.full, PreviousOrCurrent)

C10_Witness ==
    /\ Compares
    /\ fileCommit.status = "Modified"
    /\ Len(Fetches) = 2
    /\ pc = "resolved"

====
